---- MODULE Spec2Model ----
(***************************************************************************)
(* Antigravity Lead Radar (src/app.py): the three background scanners      *)
(* (Discord, GitHub, HackerNews), the ScannerState object they share with  *)
(* the Streamlit script runs, the settings file and the leads collection.  *)
(*                                                                         *)
(* Texts are sequences of one-character strings.  A worker is a thread     *)
(* started by a toggle; it keeps the ScannerState object of the script run *)
(* that started it (the functions' globals are those of that run), while   *)
(* every later script run asks get_scanner_state() again.                  *)
(***************************************************************************)
EXTENDS Integers, Sequences, FiniteSets, TLC

VARIABLES
    settings,   \* content of settings.json as last written in full; its field
                \* writing holds the content being written while the file is
                \* open for writing (truncated)
    gen,        \* which ScannerState object get_scanner_state() returns now
    running,    \* running[g][src]: the *_running flag of ScannerState object g
    pub,        \* pub[g]: the loop and client attributes of ScannerState object g
    dbcache,    \* cached result of get_db_collection(uri) for the configured uri
    workers,    \* the scanner threads, in the order they were started
    store,      \* store[uri]: the leads collection of database uri, in insertion order
    prov,       \* history: the inserts that returned
    feed,       \* what the external sources hold: issues, stories, messages
    logs,       \* logs[g]: the deque of ScannerState object g, newest first
    stopReq,    \* history: per source, a stop was requested and no start followed
    handed,     \* history: how often (up to twice) each item was handed to the pipeline
    lim,        \* the bounds of this run: threads, saves, response length, log sink observed
    probe       \* history: the operations applied where a run records them (the
                \* matcher's result, the last toggle request, the events logged)

vars == <<settings, gen, running, pub, dbcache, workers, store, prov, feed, logs, stopReq,
          handed, lim, probe>>

----------------------------------------------------------------------------
(* Bounds of the model *)

\* threads started during one run of the host process
MaxWorkers == 2
\* Save Settings clicks (each clears the resource cache)
MaxSaves == 1
\* distinct issue / story / message ids an external source holds
MaxItems == 2
\* items in one search response
MaxResp == 1
\* ticks of the interval sleep that are modelled (range(300) in the code)
SleepTicks == 1
\* characters beyond the content limit an item text can have
MaxOver == 1
\* threads, saves, ids, items per response in the runs that check the store contract
StoreWorkers == 2
StoreSaves == 1
StoreItems == 1
StoreResp == 1
\* threads, ids and items per response in the runs of a single scan worker
DataWorkers == 1
DataItems == 2
DataResp == 2
\* threads, ids and items per response in the runs that persist long texts
ContentWorkers == 1
ContentItems == 1
ContentResp == 1
\* length of a keyword list drawn for the matcher
MaxKws == 2
\* length of a text drawn for the matcher
MaxText == 2

(* Program constants *)

\* lead_doc["content"] = ...[:2000]
ContentLimit == 2000
\* deque(maxlen=50)
LogLimit == 50

Sources == {"Discord", "GitHub", "HackerNews"}
\* the databases a mongo_uri of the settings form can name
DbNames == {"db", "db2"}
Polling == {"GitHub", "HackerNews"}

----------------------------------------------------------------------------
(* Texts *)

Chars == {"a", "b", "A", "B"}

\* str.lower() on one character
LowerChar(c) == CASE c = "A" -> "a" [] c = "B" -> "b" [] OTHER -> c

\* str.lower()
Lower(s) == [i \in 1..Len(s) |-> LowerChar(s[i])]

\* needle in hay (Python substring test)
Contains(needle, hay) ==
    \E i \in 0..(Len(hay) - Len(needle)) : SubSeq(hay, i + 1, i + Len(needle)) = needle

\* s[:n]
Slice(s, n) == SubSeq(s, 1, IF Len(s) < n THEN Len(s) ELSE n)

\* text[:2000], the cut applied to every persisted content
CutContentFirstOver(s) == Slice(s, ContentLimit + 1)
CutContent(s) == Slice(s, ContentLimit)

\* sequences over S of length at most n
SeqsUpTo(S, n) == UNION {[1..k -> S] : k \in 0..n}

\* an optional JSON field: absent key, null, or a text
Absent == [k |-> "absent", v |-> <<>>]
Null == [k |-> "null", v |-> <<>>]
Text(s) == [k |-> "text", v |-> s]

\* a text of n characters, no two neighbouring windows alike
LongText(n) == [i \in 1..n |-> IF i % 3 = 0 THEN "a" ELSE IF i % 3 = 1 THEN "b" ELSE "A"]

----------------------------------------------------------------------------
(* Matcher of on_message *)

\* for keyword in keywords: if keyword.lower() in text_to_search: matched_kw = keyword; break
\* (0 stands for matched_kw = None)
RECURSIVE FirstMatch(_, _, _)
FirstMatch(text, kws, i) ==
    IF i > Len(kws) THEN 0
    ELSE IF Contains(Lower(kws[i]), text) THEN i
    ELSE FirstMatch(text, kws, i + 1)

\* index of matched_kw in keywords for message content `content`
MatchIndex(content, kws) == FirstMatch(Lower(content), kws, 1)

\* `if matched_kw:` - None and the empty string are both falsy
Truthy(kws, idx) == idx # 0 /\ kws[idx] # <<>>

----------------------------------------------------------------------------
(* Settings *)

\* one keyword per line of a text area
kwA == <<"a">>
kwB == <<"b">>
kwBlank == <<" ">>

\* str.strip() of one form line (the lines drawn carry at most one blank)
Strip(line) == SelectSeq(line, LAMBDA c : c # " ")

\* [k.strip() for k in text.split("\n") if k.strip()]
FormKeywords(lines) ==
    LET stripped == [i \in 1..Len(lines) |-> Strip(lines[i])]
    IN  SelectSeq(stripped, LAMBDA k : k # <<>>)

MkSettings(uri, tok, em, gh, hn) ==
    [mongo_uri |-> uri, discord_bot_token |-> tok,
     emergency_keywords |-> em, github_keywords |-> gh, hn_keywords |-> hn,
     writing |-> <<>>]

\* DEFAULT_SETTINGS, with the keyword lists shortened to two stand-ins each
DEFAULT_SETTINGS == MkSettings("", "", <<kwA, kwB>>, <<kwA, kwB>>, <<kwA, kwB>>)

\* what the Save Settings form can write: mongo_uri, discord_bot_token and the
\* lines of a keyword text area ("" is not configured)
FormInputs ==
    {<<"db", "tok", <<kwA, kwB>>>>, <<"db", "tok", <<kwB, kwBlank, kwA>>>>,
     <<"db", "", <<kwA, kwB>>>>, <<"", "tok", <<kwA, kwB>>>>}
FormSettings ==
    {MkSettings(f[1], f[2], FormKeywords(f[3]), FormKeywords(f[3]), FormKeywords(f[3])) :
        f \in FormInputs}

\* settings.json as the process finds it: absent (defaults) or left by an earlier run
InitialSettings ==
    {DEFAULT_SETTINGS, MkSettings("db", "tok", <<kwA, kwB>>, <<kwA, kwB>>, <<kwA, kwB>>)}

\* settings.get("<source>_keywords", []) of each scanner
KeywordsOf(st, src) ==
    CASE src = "Discord" -> st.emergency_keywords
      [] src = "GitHub" -> st.github_keywords
      [] src = "HackerNews" -> st.hn_keywords

\* load_settings() (lines 31-42): the content of the file; json.load raises on
\* a file that save_settings has opened with "w" and not yet written, the
\* except clause passes and the function returns DEFAULT_SETTINGS.copy()
Pending == IF settings.writing # <<>> THEN settings.writing[1] ELSE settings
Loaded == IF settings.writing # <<>> THEN DEFAULT_SETTINGS ELSE settings

----------------------------------------------------------------------------
(* External sources *)

\* a GitHub issue: id 2 has "body": null; the others carry `body`
GhIssue(i, body) ==
    [title |-> Text(<<"a">>),
     body |-> IF i = 2 THEN Null ELSE body,
     created_at |-> Text(<<"b">>)]

\* a HackerNews hit: id 2 has "title": null; the others carry `text`
HnHit(i, text) ==
    [title |-> IF i = 2 THEN Null ELSE Text(<<"a">>),
     story_text |-> text,
     created_at_i |-> IF i = 1 THEN Text(<<"b">>) ELSE Absent]

\* a Discord message: id 2 is written by a bot
DiscordMsg(i, text) == [content |-> text, bot |-> (i = 2)]

\* the external sources, given the body of the issues, the text of the stories
\* and the content of the messages they hold
MkFeed(ghBody, hnText, dcText) == [gh |-> ghBody, hn |-> hnText, dc |-> dcText]

\* the item with id i of a source
Item(fd, src, i) ==
    CASE src = "GitHub" -> GhIssue(i, fd.gh)
      [] src = "HackerNews" -> HnHit(i, fd.hn)
      [] src = "Discord" -> DiscordMsg(i, fd.dc)

\* resp.json().get("items", []) / .get("hits", []): any sequence of at most n of
\* the items 1..m
Responses(m, n) == SeqsUpTo(1..m, n)

----------------------------------------------------------------------------
(* Leads *)

Prefix(src) ==
    CASE src = "Discord" -> "discord_" [] src = "GitHub" -> "gh_" [] src = "HackerNews" -> "hn_"

\* f"gh_{issue_id}", f"hn_{hit_id}", f"discord_{message.id}"
SourceId(src, i) == <<Prefix(src), i>>

\* "No description provided."
NoDescription ==
    <<"N","o"," ","d","e","s","c","r","i","p","t","i","o","n"," ","p","r","o","v","i","d","e","d",".">>

\* col.find_one({"source_id": sid}) is truthy
FindOne(col, sid) == \E i \in 1..Len(col) : col[i].source_id = sid

\* col.insert_one(lead_doc)
InsertOneDropped(col, doc) == col
InsertOne(col, doc) == Append(col, doc)

\* the statements between find_one and insert_one raise (None[:30], None.replace, None[:2000])
GhRaises(it) == it.title.k # "text" \/ it.created_at.k # "text" \/ it.body.k = "null"
HnRaises(it) == it.title.k # "text"

MkLead(src, i, title, content, tag, kw, at) ==
    [source_id |-> SourceId(src, i), title |-> title, url |-> <<src, i>>,
     content |-> CutContent(content), tag |-> tag, source |-> src,
     matched_keyword |-> kw, status |-> "New", created_at |-> at,
     generated_pitch |-> <<>>]

\* lead_doc of run_github_scanner
GhLead(i, it, kw) ==
    MkLead("GitHub", i, it.title.v,
           IF it.body.k = "absent" THEN NoDescription ELSE it.body.v,
           kw, kw, it.created_at.v)

\* lead_doc of run_hn_scanner (story_text or "", created_at_i or now)
HnLead(i, it, kw) ==
    MkLead("HackerNews", i, it.title.v,
           IF it.story_text.k = "text" THEN it.story_text.v ELSE <<>>,
           kw, kw, IF it.created_at_i.k = "text" THEN it.created_at_i.v ELSE <<"n","o","w">>)

\* lead_doc of on_message
DiscordLead(i, msg, kw) ==
    MkLead("Discord", i, <<"M">>, msg.content, <<"#">>, kw, <<"b">>)

PollRaises(src, it) == IF src = "GitHub" THEN GhRaises(it) ELSE HnRaises(it)
PollLead(src, i, it, kw) == IF src = "GitHub" THEN GhLead(i, it, kw) ELSE HnLead(i, it, kw)

----------------------------------------------------------------------------
(* State *)

\* class ScannerState: the three flags start False, loop and client None (0)
NewFlags == [src \in Sources |-> FALSE]
NewPub == [loop |-> 0, client |-> 0]

\* a thread as threading.Thread(target=run_<source>_scanner) creates it.
\*   g       the ScannerState object its function's globals name
\*   pc      where it stands in run_<source>_scanner
\*   col     the database of the collection get_db_collection gave it ("" for None)
\*   kws, ki the keyword list of this cycle and the index of the keyword at hand
\*   resp, ri the items of the response at hand and the index of the item at hand
\*   tick    iterations of the interval sleep done
\*   doc     the lead_doc built and not yet inserted
\*   closed  Discord: client.close() has run for its client
\*   toClose Discord: clients whose close() is queued on its event loop
\*   seen    history: items the queries of earlier keywords of this cycle returned
\*           and left for a later keyword to insert
\*   ss      history: a stop was requested during its interval sleep
NewWorker(src, g) ==
    [src |-> src, g |-> g, pc |-> "init", col |-> "", kws |-> <<>>, ki |-> 0, resp |-> <<>>, ri |-> 0,
     tick |-> 0, doc |-> <<>>, closed |-> FALSE, toClose |-> {},
     seen |-> {}, ss |-> FALSE, ff |-> FALSE]

\* a thread whose function has returned
Finished(w) ==
    [w EXCEPT !.pc = "done", !.col = "", !.kws = <<>>, !.ki = 0, !.resp = <<>>, !.ri = 0, !.tick = 0,
              !.doc = <<>>, !.closed = FALSE, !.toClose = {}, !.seen = {}, !.ss = FALSE,
              !.ff = FALSE]

Live(w) == w.pc # "done"
LiveOf(src) == {i \in 1..Len(workers) : workers[i].src = src /\ Live(workers[i])}

\* scanner_state.log(msg): deque(maxlen=50).appendleft
PushUnlessFull(q, msg) == IF Len(q) < LogLimit THEN <<msg>> \o q ELSE q
Push(q, msg) == Slice(<<msg>> \o q, LogLimit)
Logged(g, msg) ==
    logs' = IF lim.log THEN [logs EXCEPT ![g] = Push(@, msg)] ELSE logs

\* get_db_collection(uri): None without a uri, the cached value if there is one,
\* else a connection attempt that succeeds ("col") or fails ("none"); both are cached
DbResults(uri) ==
    IF uri = "" THEN {"none"}
    ELSE IF dbcache = "unset" THEN {"col", "none"} ELSE {dbcache}
DbCached(uri, r) == IF uri = "" THEN dbcache ELSE r

\* the bounds of a run: threads started, settings saved, ids an external source
\* holds, items per response, ticks of the interval sleep; whether the log sink
\* and the items handed to the pipeline are recorded
Limits(nw, ns, ni, nr, nt, lg, tr) ==
    [workers |-> nw, saves |-> ns, items |-> ni, resp |-> nr, ticks |-> nt,
     log |-> lg, track |-> tr]

InitFrom(st, fd, lm, db) ==
    /\ settings = st
    /\ gen = 0
    /\ running = [g \in 0..lm.saves |-> NewFlags]
    /\ pub = [g \in 0..lm.saves |-> NewPub]
    /\ dbcache = "unset"
    /\ workers = <<>>
    /\ store = db
    /\ prov = {}
    /\ feed = fd
    /\ logs = [g \in 0..lm.saves |-> <<>>]
    /\ stopReq = [src \in Sources |-> FALSE]
    /\ handed = {}
    /\ lim = lm
    /\ probe = <<>>

\* the process started on databases that hold no lead
InitWith(st, fd, lm) == InitFrom(st, fd, lm, [u \in DbNames |-> <<>>])

\* the external sources with short texts
SmallFeed == MkFeed(Text(<<"a">>), Text(<<"b">>), <<"A", "b">>)

----------------------------------------------------------------------------
(* Presentation layer: one script run per action *)

\* history kept by a stop request: which threads it finds in the interval sleep
NoteStop(ws, src) ==
    [i \in 1..Len(ws) |->
        IF ws[i].src = src /\ ws[i].pc = "sleep" THEN [ws[i] EXCEPT !.ss = TRUE] ELSE ws[i]]

\* `if target != scanner_state.<source>_running:` then `if target:` start,
\* `else:` stop (lines 416-424, 433-439, 445-451)
DecideAlways(target, flag) == IF target THEN "start" ELSE "stop"
Decide(target, flag) ==
    IF target = flag THEN "none" ELSE IF target THEN "start" ELSE "stop"

\* history: the stop request or refused start of this script run (n tells two
\* equal requests apart)
Asked(op, src) ==
    probe' = IF lim.track /\ op # "start"
             THEN <<[op |-> op, src |-> src, was |-> running[gen][src],
                     n |-> IF probe = <<>> THEN 0 ELSE 1 - probe[1].n]>>
             ELSE probe

\* is_ready = bool(app_settings.get("mongo_uri")), toggles disabled=not is_ready
\* (lines 412-415); `if target_discord and token:` (line 418)
CanStartAlways(src, st) == TRUE
CanStart(src, st) ==
    /\ st.mongo_uri # ""
    /\ src = "Discord" => st.discord_bot_token # ""

\* the toggle is turned on: target != running and target is True
\* (lines 415-421, 432-438, 444-450); the run first resolves leads_col (line 337)
ToggleOn(src) ==
    /\ CanStart(src, Loaded)
    /\ Decide(TRUE, running[gen][src]) = "start"
    /\ Len(workers) < lim.workers
    /\ running' = [running EXCEPT ![gen][src] = TRUE]
    /\ workers' = Append(workers, NewWorker(src, gen))
    /\ stopReq' = [stopReq EXCEPT ![src] = FALSE]
    /\ \E r \in DbResults(Loaded.mongo_uri) : dbcache' = DbCached(Loaded.mongo_uri, r)
    /\ Asked("start", src)
    /\ UNCHANGED <<settings, gen, pub, store, prov, feed, logs, handed, lim>>

\* asyncio.run_coroutine_threadsafe(scanner_state.client.close(), scanner_state.loop):
\* the coroutine waits on that loop until its thread runs the loop
QueueClose(ws, g) ==
    IF pub[g].client # 0 /\ pub[g].loop # 0 /\ Live(ws[pub[g].loop])
    THEN [ws EXCEPT ![pub[g].loop].toClose = @ \cup {pub[g].client}]
    ELSE ws

\* the toggle is turned off: target != running and target is False
\* (lines 424-429, 439-441, 451-453)
ToggleOff(src) ==
    /\ Loaded.mongo_uri # ""
    /\ Decide(FALSE, running[gen][src]) = "stop"
    /\ running' = [running EXCEPT ![gen][src] = FALSE]
    /\ workers' = IF src = "Discord" THEN QueueClose(workers, gen)
                  ELSE NoteStop(workers, src)
    /\ stopReq' = [stopReq EXCEPT ![src] = TRUE]
    /\ \E r \in DbResults(Loaded.mongo_uri) : dbcache' = DbCached(Loaded.mongo_uri, r)
    /\ Asked("stop", src)
    /\ UNCHANGED <<settings, gen, pub, store, prov, feed, logs, handed, lim>>

\* a start that the configuration does not allow: without mongo_uri the toggle
\* is disabled and returns the flag; Discord without a token shows
\* "Missing Discord Token" (lines 422-423)
ToggleRefused(src) ==
    /\ ~CanStart(src, Loaded)
    /\ Decide(TRUE, running[gen][src]) = "start"
    /\ \E r \in DbResults(Loaded.mongo_uri) : dbcache' = DbCached(Loaded.mongo_uri, r)
    /\ Asked("refused", src)
    /\ UNCHANGED <<settings, gen, running, pub, workers, store, prov, feed, logs, stopReq,
                   handed, lim>>

\* a script run whose toggle asks for what the flag already says (a stop of a
\* stopped source, a start of a running one): neither branch of the handler runs
ToggleSame(src, target) ==
    /\ Decide(target, running[gen][src]) = "none"
    /\ \E r \in DbResults(Loaded.mongo_uri) : dbcache' = DbCached(Loaded.mongo_uri, r)
    /\ Asked(IF target THEN "start" ELSE "stop", src)
    /\ UNCHANGED <<settings, gen, running, pub, workers, store, prov, feed, logs, stopReq,
                   handed, lim>>

\* save_settings opens the file with "w", which truncates it (line 45)
SaveOpen(st) ==
    /\ gen < lim.saves
    /\ settings.writing = <<>>
    /\ settings' = [settings EXCEPT !.writing = <<st>>]
    /\ UNCHANGED <<gen, running, pub, dbcache, workers, store, prov, feed, logs, stopReq,
                   handed, lim, probe>>

\* json.dump has written the content and the file is closed (line 46);
\* st.cache_resource.clear() (line 394)
SaveClose ==
    /\ settings.writing # <<>>
    /\ settings' = settings.writing[1]
    /\ gen' = gen + 1
    /\ dbcache' = "unset"
    /\ UNCHANGED <<running, pub, workers, store, prov, feed, logs, stopReq, handed, lim, probe>>

\* Save Settings with no load_settings running between the open and the close
\* of the file: save_settings(app_settings); st.cache_resource.clear()
\* The next get_scanner_state() builds a new ScannerState, the next
\* get_db_collection() connects again.
SaveSettings(st) ==
    /\ gen < lim.saves
    /\ settings' = st
    /\ gen' = gen + 1
    /\ dbcache' = "unset"
    /\ UNCHANGED <<running, pub, workers, store, prov, feed, logs, stopReq, handed, lim, probe>>

----------------------------------------------------------------------------
(* run_github_scanner and run_hn_scanner *)

IsPolling(i) == i \in 1..Len(workers) /\ workers[i].src \in Polling
At(i, pc) == i \in 1..Len(workers) /\ workers[i].pc = pc

\* scanner_state.<source>_running as thread i reads it
Flag(i) == running[workers[i].g][workers[i].src]

\* scanner_state.<source>_running = False on an exit path of thread i
\* (lines 131, 195, 207, 271)
ExitFlagsKept(i) == running
ExitFlags(i) == [running EXCEPT ![workers[i].g][workers[i].src] = FALSE]

\* settings = load_settings(); col = get_db_collection(settings["mongo_uri"]);
\* `if col is None` (lines 201-205, 266-269)
PollInit(i) ==
    /\ IsPolling(i) /\ At(i, "init")
    /\ \E r \in DbResults(Loaded.mongo_uri) :
        /\ dbcache' = DbCached(Loaded.mongo_uri, r)
        /\ workers' = [workers EXCEPT ![i].pc = IF r = "col" THEN "while" ELSE "fail",
                                      ![i].col = IF r = "col" THEN Loaded.mongo_uri ELSE ""]
        /\ Logged(workers[i].g, IF r = "col" THEN "started" ELSE "failed")
    /\ UNCHANGED <<settings, gen, running, pub, store, prov, feed, stopReq, handed, lim, probe>>

\* scanner_state.<source>_running = False; return (lines 207-208, 271-272)
PollFail(i) ==
    /\ IsPolling(i) /\ At(i, "fail")
    /\ running' = ExitFlags(i)
    /\ workers' = [workers EXCEPT ![i] = Finished(@)]
    /\ UNCHANGED <<settings, gen, pub, dbcache, store, prov, feed, logs, stopReq, handed, lim, probe>>

\* while scanner_state.<source>_running: settings = load_settings(); keywords = ...
\* (lines 214-216, 275-277); the loop ends with the "Stopped" log line
PollWhile(i) ==
    /\ IsPolling(i) /\ At(i, "while")
    /\ IF Flag(i)
       THEN /\ workers' = [workers EXCEPT ![i].pc = "for",
                                          ![i].kws = KeywordsOf(Loaded, workers[i].src),
                                          ![i].ki = 1, ![i].seen = {}, ![i].tick = 0]
            /\ UNCHANGED logs
       ELSE /\ workers' = [workers EXCEPT ![i] = Finished(@)]
            /\ Logged(workers[i].g, "stopped")
    /\ UNCHANGED <<settings, gen, running, pub, dbcache, store, prov, feed, stopReq, handed, lim, probe>>

\* for kw in keywords: if not scanner_state.<source>_running: break; else the
\* request of this keyword is sent (lines 218-227, 279-286)
PollFor(i) ==
    /\ IsPolling(i) /\ At(i, "for")
    /\ IF workers[i].ki > Len(workers[i].kws) \/ ~Flag(i)
       THEN /\ workers' = [workers EXCEPT ![i].pc = "postfor", ![i].kws = <<>>, ![i].ki = 0,
                                          ![i].seen = {}]
            /\ UNCHANGED logs
       ELSE /\ workers' = [workers EXCEPT ![i].pc = "fetch"]
            /\ Logged(workers[i].g, "querying")
    /\ UNCHANGED <<settings, gen, running, pub, dbcache, store, prov, feed, stopReq, handed, lim, probe>>

\* history: one more item is handed to the pipeline (<<sid, 1>> once it was
\* handed, <<sid, 2>> once it was handed again)
Hand(h, sid) ==
    IF ~lim.track THEN h
    ELSE IF <<sid, 1>> \in h THEN h \cup {<<sid, 2>>} ELSE h \cup {<<sid, 1>>}

\* the items of the response at hand that neither are in the collection nor raise
Left(w) ==
    {id \in {w.resp[j] : j \in 1..Len(w.resp)} :
        ~FindOne(store[w.col], SourceId(w.src, id)) /\ ~PollRaises(w.src, Item(feed, w.src, id))}

\* the keyword at hand is done: time.sleep(5) / time.sleep(3), next keyword
NextKeyword(w) ==
    [w EXCEPT !.pc = "for", !.ki = @ + 1, !.resp = <<>>, !.ri = 0, !.doc = <<>>,
              !.seen = @ \cup Left(w)]

\* the fetch of the keyword at hand failed: the except clause of the keyword
\* (lines 250-251, 319-320) or the skipped `if resp.status_code == 200` block
\* leads to the sleep that ends the keyword (ff is history: a fetch has failed)
FetchFailedEnds(w) == Finished(w)
FetchFailed(w) == [NextKeyword(w) EXCEPT !.ff = @ \/ lim.track]

\* resp = requests.get(...): an exception or a status other than 200 ends the
\* keyword; a 200 response carries its items (lines 222-230, 283-289)
PollFetch(i) ==
    /\ IsPolling(i) /\ At(i, "fetch")
    /\ \/ /\ workers' = [workers EXCEPT ![i] = FetchFailed(@)]
          /\ Logged(workers[i].g, "api error")
       \/ /\ workers' = [workers EXCEPT ![i] = FetchFailed(@)]
          /\ UNCHANGED logs
       \/ \E r \in Responses(lim.items, lim.resp) :
          /\ workers' = [workers EXCEPT ![i].pc = "items", ![i].resp = r, ![i].ri = 1]
          /\ UNCHANGED logs
    /\ UNCHANGED <<settings, gen, running, pub, dbcache, store, prov, feed, stopReq, handed, lim, probe>>

\* for issue in items: if col.find_one(...): continue; ... lead_doc = {...}
\* (lines 230-248, 289-317); an exception leaves the items loop for the
\* except clause of the keyword
PollItem(i) ==
    /\ IsPolling(i) /\ At(i, "items")
    /\ LET w == workers[i]
           src == w.src
       IN  IF w.ri > Len(w.resp)
           THEN /\ workers' = [workers EXCEPT ![i] = NextKeyword(w)]
                /\ UNCHANGED logs
           ELSE LET id == w.resp[w.ri]
                    it == Item(feed, src, id)
                IN  IF FindOne(store[w.col], SourceId(src, id))
                    THEN /\ workers' = [workers EXCEPT ![i].ri = @ + 1]
                         /\ UNCHANGED logs
                    ELSE IF PollRaises(src, it)
                    THEN /\ workers' = [workers EXCEPT ![i] = NextKeyword(w)]
                         /\ Logged(w.g, "api error")
                    ELSE /\ workers' = [workers EXCEPT ![i].pc = "insert",
                                ![i].doc = <<[lead |-> PollLead(src, id, it, w.kws[w.ki]),
                                             id |-> id, kws |-> w.kws,
                                             earlier |-> id \in w.seen]>>]
                         /\ Logged(w.g, "match")
    /\ handed' = IF workers[i].ri > Len(workers[i].resp) THEN handed
                  ELSE Hand(handed, SourceId(workers[i].src, workers[i].resp[workers[i].ri]))
    /\ UNCHANGED <<settings, gen, running, pub, dbcache, store, prov, feed, stopReq, lim, probe>>

\* history: insert_one of the lead_doc of thread w has returned
Inserted(w) ==
    [col |-> w.col, src |-> w.src, id |-> w.doc[1].id, kws |-> w.doc[1].kws,
     earlier |-> w.doc[1].earlier]

\* col.insert_one(lead_doc) (lines 249, 318)
PollInsert(i) ==
    /\ IsPolling(i) /\ At(i, "insert")
    /\ store' = [store EXCEPT ![workers[i].col] = InsertOne(@, workers[i].doc[1].lead)]
    /\ prov' = prov \cup {Inserted(workers[i])}
    /\ workers' = [workers EXCEPT ![i].pc = "items", ![i].ri = @ + 1, ![i].doc = <<>>]
    /\ UNCHANGED <<settings, gen, running, pub, dbcache, feed, logs, stopReq, handed, lim, probe>>

\* if not scanner_state.<source>_running: break (lines 255-256, 324-325)
PollPostFor(i) ==
    /\ IsPolling(i) /\ At(i, "postfor")
    /\ IF Flag(i)
       THEN /\ workers' = [workers EXCEPT ![i].pc = "sleep", ![i].tick = 0]
            /\ Logged(workers[i].g, "sleeping")
       ELSE /\ workers' = [workers EXCEPT ![i] = Finished(@)]
            /\ Logged(workers[i].g, "stopped")
    /\ UNCHANGED <<settings, gen, running, pub, dbcache, store, prov, feed, stopReq, handed, lim, probe>>

\* for _ in range(300): if not scanner_state.<source>_running: break; time.sleep(1)
\* (lines 257-259, 326-328)
PollSleep(i) ==
    /\ IsPolling(i) /\ At(i, "sleep")
    /\ IF workers[i].tick >= lim.ticks \/ ~Flag(i)
       THEN workers' = [workers EXCEPT ![i].pc = "while", ![i].tick = 0]
       ELSE workers' = [workers EXCEPT ![i].tick = @ + 1]
    /\ UNCHANGED <<settings, gen, running, pub, dbcache, store, prov, feed, logs, stopReq,
                   handed, lim, probe>>

----------------------------------------------------------------------------
(* run_discord_scanner *)

IsDiscord(i) == i \in 1..Len(workers) /\ workers[i].src = "Discord"

\* settings = load_settings(); col = ...; token = ...; `if not token or col is None`
\* (lines 125-129)
DiscordInit(i) ==
    /\ IsDiscord(i) /\ At(i, "init")
    /\ \E r \in DbResults(Loaded.mongo_uri) :
        LET ok == r = "col" /\ Loaded.discord_bot_token # ""
        IN  /\ dbcache' = DbCached(Loaded.mongo_uri, r)
            /\ workers' = [workers EXCEPT ![i].pc = IF ok THEN "loop" ELSE "fail",
                                          ![i].col = IF ok THEN Loaded.mongo_uri ELSE ""]
            /\ Logged(workers[i].g, IF ok THEN "initializing" ELSE "failed")
    /\ UNCHANGED <<settings, gen, running, pub, store, prov, feed, stopReq, handed, lim, probe>>

\* scanner_state.discord_running = False; return (lines 131-132)
DiscordFail(i) ==
    /\ IsDiscord(i) /\ At(i, "fail")
    /\ running' = ExitFlags(i)
    /\ workers' = [workers EXCEPT ![i] = Finished(@)]
    /\ UNCHANGED <<settings, gen, pub, dbcache, store, prov, feed, logs, stopReq, handed, lim, probe>>

\* loop = asyncio.new_event_loop(); scanner_state.loop = loop (lines 135-137)
DiscordPublishLoop(i) ==
    /\ IsDiscord(i) /\ At(i, "loop")
    /\ pub' = [pub EXCEPT ![workers[i].g].loop = i]
    /\ workers' = [workers EXCEPT ![i].pc = "client"]
    /\ UNCHANGED <<settings, gen, running, dbcache, store, prov, feed, logs, stopReq, handed, lim, probe>>

\* client = discord.Client(...); scanner_state.client = client (lines 142-143)
DiscordPublishClient(i) ==
    /\ IsDiscord(i) /\ At(i, "client")
    /\ pub' = [pub EXCEPT ![workers[i].g].client = i]
    /\ workers' = [workers EXCEPT ![i].pc = "connect"]
    /\ UNCHANGED <<settings, gen, running, dbcache, store, prov, feed, logs, stopReq, handed, lim, probe>>

\* the event loop of thread i runs a client.close() queued on it by a stop request
DiscordRunClose(i) ==
    /\ IsDiscord(i) /\ workers[i].pc \in {"connect", "listen"}
    /\ \E c \in workers[i].toClose :
        workers' = [[workers EXCEPT ![i].toClose = @ \ {c}] EXCEPT
                        ![c].closed = Live(workers[c])]
    /\ UNCHANGED <<settings, gen, running, pub, dbcache, store, prov, feed, logs, stopReq,
                   handed, lim, probe>>

\* loop.run_until_complete(client.start(token)) (line 191): the login succeeds and
\* the client waits for events, or start raises, or the client was closed
DiscordConnect(i) ==
    /\ IsDiscord(i) /\ At(i, "connect")
    /\ \/ /\ ~workers[i].closed
          /\ workers' = [workers EXCEPT ![i].pc = "listen"]
          /\ Logged(workers[i].g, "logged in")
       \/ /\ ~workers[i].closed
          /\ workers' = [workers EXCEPT ![i].pc = "finally"]
          /\ Logged(workers[i].g, "error")
       \/ /\ workers[i].closed
          /\ workers' = [workers EXCEPT ![i].pc = "finally"]
          /\ UNCHANGED logs
    /\ UNCHANGED <<settings, gen, running, pub, dbcache, store, prov, feed, stopReq, handed, lim, probe>>

\* on_message(message) up to find_one (lines 150-187): a message arrives
DiscordOnMessage(i, m) ==
    /\ IsDiscord(i) /\ At(i, "listen") /\ ~workers[i].closed
    /\ m \in 1..lim.items
    /\ LET w == workers[i]
           msg == Item(feed, "Discord", m)
           kws == Loaded.emergency_keywords
           idx == MatchIndex(msg.content, kws)
       IN  IF ~Flag(i)
           THEN /\ workers' = [workers EXCEPT ![i].closed = TRUE]
                /\ UNCHANGED logs
           ELSE /\ ~msg.bot
                /\ Truthy(kws, idx)
                /\ ~FindOne(store[w.col], SourceId("Discord", m))
                /\ workers' = [workers EXCEPT ![i].pc = "dinsert",
                        ![i].doc = <<[lead |-> DiscordLead(m, msg, kws[idx]),
                                     id |-> m, kws |-> kws,
                                     earlier |-> \E j \in 1..(idx - 1) :
                                                    Contains(Lower(kws[j]), Lower(msg.content))]>>]
                /\ Logged(w.g, "match")
    /\ UNCHANGED <<settings, gen, running, pub, dbcache, store, prov, feed, stopReq, handed, lim, probe>>

\* col.insert_one(lead_doc) of on_message (line 188)
DiscordInsert(i) ==
    /\ IsDiscord(i) /\ At(i, "dinsert")
    /\ store' = [store EXCEPT ![workers[i].col] = InsertOne(@, workers[i].doc[1].lead)]
    /\ prov' = prov \cup {Inserted(workers[i])}
    /\ workers' = [workers EXCEPT ![i].pc = "listen", ![i].doc = <<>>]
    /\ UNCHANGED <<settings, gen, running, pub, dbcache, feed, logs, stopReq, handed, lim, probe>>

\* client.start returns because the client was closed, or raises while listening
\* (lines 191-193)
DiscordStartReturns(i) ==
    /\ IsDiscord(i) /\ At(i, "listen")
    /\ \/ /\ workers[i].closed
          /\ UNCHANGED logs
       \/ /\ ~workers[i].closed
          /\ Logged(workers[i].g, "error")
    /\ workers' = [workers EXCEPT ![i].pc = "finally"]
    /\ UNCHANGED <<settings, gen, running, pub, dbcache, store, prov, feed, stopReq, handed, lim, probe>>

\* finally: scanner_state.discord_running = False; log (lines 194-196)
DiscordFinally(i) ==
    /\ IsDiscord(i) /\ At(i, "finally")
    /\ running' = ExitFlags(i)
    /\ workers' = [workers EXCEPT ![i] = Finished(@)]
    /\ Logged(workers[i].g, "stopped")
    /\ UNCHANGED <<settings, gen, pub, dbcache, store, prov, feed, stopReq, handed, lim, probe>>

----------------------------------------------------------------------------
(* The system *)

\* the threads and the item ids any run can hold
WorkerIds == 1..(MaxWorkers + StoreWorkers + DataWorkers + ContentWorkers)
ItemIds == 1..(MaxItems + StoreItems + DataItems + ContentItems)

UiStep ==
    \/ \E src \in Sources : ToggleOn(src)
    \/ \E src \in Sources : ToggleOff(src)
    \/ \E src \in Sources : \E target \in BOOLEAN : ToggleSame(src, target)

PollStep ==
    \/ \E i \in WorkerIds : PollInit(i)
    \/ \E i \in WorkerIds : PollFail(i)
    \/ \E i \in WorkerIds : PollWhile(i)
    \/ \E i \in WorkerIds : PollFor(i)
    \/ \E i \in WorkerIds : PollFetch(i)
    \/ \E i \in WorkerIds : PollItem(i)
    \/ \E i \in WorkerIds : PollInsert(i)
    \/ \E i \in WorkerIds : PollPostFor(i)
    \/ \E i \in WorkerIds : PollSleep(i)

DiscordStep ==
    \/ \E i \in WorkerIds : DiscordInit(i)
    \/ \E i \in WorkerIds : DiscordFail(i)
    \/ \E i \in WorkerIds : DiscordPublishLoop(i)
    \/ \E i \in WorkerIds : DiscordPublishClient(i)
    \/ \E i \in WorkerIds : DiscordRunClose(i)
    \/ \E i \in WorkerIds : DiscordConnect(i)
    \/ \E i \in WorkerIds : \E m \in ItemIds : DiscordOnMessage(i, m)
    \/ \E i \in WorkerIds : DiscordInsert(i)
    \/ \E i \in WorkerIds : DiscordStartReturns(i)
    \/ \E i \in WorkerIds : DiscordFinally(i)

Next == UiStep \/ (\E src \in Sources : ToggleRefused(src)) \/ (\E st \in FormSettings : SaveSettings(st)) \/ PollStep \/ DiscordStep

Init ==
    \E st \in InitialSettings :
        InitWith(st, SmallFeed,
                 Limits(MaxWorkers, MaxSaves, MaxItems, MaxResp, SleepTicks, FALSE, FALSE))

Spec == Init /\ [][Next]_vars

----------------------------------------------------------------------------
(* Properties of the running system (specification Spec) *)

\* the leads of database u that carry source_id sid
LeadsOf(u, sid) == {k \in 1..Len(store[u]) : store[u][k].source_id = sid}

\* C1: no two leads in the store have the same source_id.
UniqueSourceIds ==
    \A u \in DbNames : \A j, k \in 1..Len(store[u]) :
        j # k => store[u][j].source_id # store[u][k].source_id

\* C8: for each source at most one scan worker is live at any time.
OneLiveWorkerPerSource == \A src \in Sources : Cardinality(LiveOf(src)) <= 1

\* a polling thread is inside a fetch-and-persist step
Fetching(w) == w.pc \in {"fetch", "items", "insert"}

\* C7: a polling worker that was in its interval sleep when stop was requested
\* does not start another fetch: it leaves the loop and terminates.
StopInSleepEndsWorker ==
    \A i \in 1..Len(workers) : workers[i].ss => ~Fetching(workers[i])

\* thread i sends the request of a keyword in this step
StartsFetch(i) == workers[i].pc = "for" /\ workers'[i].pc = "fetch"

\* C9: once stop was requested for a polling source and no start followed, no
\* worker of that source starts a new fetch (a fetch in flight is completed).
NoFetchAfterStop ==
    [][\A i \in 1..Len(workers) :
          (workers[i].src \in Polling /\ stopReq[workers[i].src]) => ~StartsFetch(i)]_vars

\* the client of Discord thread i is closed, or its close() is queued on a loop
\* that runs or is still to be run
CloseUnderWay(i) ==
    \/ workers[i].closed
    \/ \E l \in 1..Len(workers) : Live(workers[l]) /\ i \in workers[l].toClose

\* C10: after a stop request for Discord, whatever the worker was doing when it
\* arrived, a worker that connects or waits for events has its connection closed
\* or about to be closed, so that it ends without a further message.
DiscordStopCloses ==
    \A i \in 1..Len(workers) :
        (workers[i].src = "Discord" /\ stopReq["Discord"]
            /\ workers[i].pc \in {"connect", "listen"}) => CloseUnderWay(i)

----------------------------------------------------------------------------
(* One scan worker with the store reachable (specification SpecData) *)

\* settings.json with a database, a bot token and two keywords per source
Configured == MkSettings("db", "tok", <<kwA, kwB>>, <<kwA, kwB>>, <<kwA, kwB>>)

InitData ==
    InitWith(Configured, SmallFeed,
             Limits(DataWorkers, 0, DataItems, DataResp, SleepTicks, FALSE, TRUE))

NextData == UiStep \/ PollStep \/ DiscordStep

SpecData == InitData /\ [][NextData]_vars

\* C2: an item that one scan worker was handed twice has exactly one lead in the
\* store; the second occurrence caused no insert.
HandedTwiceOneLead ==
    \A src \in Polling : \A id \in ItemIds :
        <<SourceId(src, id), 2>> \in handed
            => Cardinality(LeadsOf("db", SourceId(src, id))) = 1

\* C5: every persisted lead records the earliest configured keyword that matches
\* its item: no keyword before the recorded one matched the item (for GitHub and
\* HackerNews: no earlier keyword's query of the same cycle returned it).
EarliestKeywordRecorded == \A h \in prov : ~h.earlier

----------------------------------------------------------------------------
(* The matcher applied to drawn keyword lists and texts (specification SpecMatch) *)

\* the keywords a drawn list can hold: empty, lower case, upper case, two characters
MatchKeywords == {<<>>, <<"a">>, <<"B">>, <<"a", "b">>}

InitMatch ==
    \E K \in SeqsUpTo(MatchKeywords, MaxKws) : \E T \in SeqsUpTo(Chars, MaxText) :
        InitWith(MkSettings("db", "tok", K, <<>>, <<>>), MkFeed(Absent, Absent, T),
                 Limits(0, 0, 1, 0, 0, FALSE, FALSE))

\* lines 158-167 of on_message on message content feed.dc with the configured
\* emergency_keywords: the index of matched_kw and whether `if matched_kw:` passes
ApplyMatcher ==
    /\ probe = <<>>
    /\ LET kws == settings.emergency_keywords
           idx == MatchIndex(feed.dc, kws)
       IN  probe' = <<[idx |-> idx, matched |-> Truthy(kws, idx)]>>
    /\ UNCHANGED <<settings, gen, running, pub, dbcache, workers, store, prov, feed, logs,
                   stopReq, handed, lim>>

NextMatch == ApplyMatcher

SpecMatch == InitMatch /\ [][NextMatch]_vars

\* the indices of the keywords that are case-insensitive substrings of text
Matching(kws, text) == {j \in 1..Len(kws) : Contains(Lower(kws[j]), Lower(text))}

\* C4: the matcher returns the keyword of smallest index that is a
\* case-insensitive substring of the text, and reports no match exactly when no
\* keyword is a substring of it.
MatcherReturnsEarliest ==
    probe # <<>> =>
        LET m == Matching(settings.emergency_keywords, feed.dc)
        IN  IF m = {} THEN ~probe[1].matched
            ELSE probe[1].matched /\ probe[1].idx = CHOOSE j \in m : \A k \in m : j <= k

----------------------------------------------------------------------------
(* Scanners persisting long texts (specification SpecContent) *)

\* item texts as long as the content limit, one shorter, and up to MaxOver longer
ContentLens == {0, ContentLimit - 1} \cup (ContentLimit..(ContentLimit + MaxOver))

ContentFeeds ==
    {MkFeed(Text(LongText(n)), Text(LongText(n)), LongText(n)) : n \in ContentLens}
        \cup {MkFeed(Absent, Null, <<"b">>)}

InitContent ==
    \E fd \in ContentFeeds :
        InitWith(MkSettings("db", "tok", <<kwB>>, <<kwB>>, <<kwB>>), fd,
                 Limits(ContentWorkers, 0, ContentItems, ContentResp, 0, FALSE, FALSE))

\* scanners are started and run; no stop is requested
NextContent ==
    \/ \E src \in Sources : ToggleOn(src)
    \/ \E i \in WorkerIds : PollInit(i)
    \/ \E i \in WorkerIds : PollFail(i)
    \/ \E i \in WorkerIds : PollWhile(i)
    \/ \E i \in WorkerIds : PollFor(i)
    \/ \E i \in WorkerIds : PollFetch(i)
    \/ \E i \in WorkerIds : PollItem(i)
    \/ \E i \in WorkerIds : PollInsert(i)
    \/ \E i \in WorkerIds : PollPostFor(i)
    \/ \E i \in WorkerIds : PollSleep(i)
    \/ \E i \in WorkerIds : DiscordInit(i)
    \/ \E i \in WorkerIds : DiscordFail(i)
    \/ \E i \in WorkerIds : DiscordPublishLoop(i)
    \/ \E i \in WorkerIds : DiscordPublishClient(i)
    \/ \E i \in WorkerIds : DiscordConnect(i)
    \/ \E i \in WorkerIds : \E m \in ItemIds : DiscordOnMessage(i, m)
    \/ \E i \in WorkerIds : DiscordInsert(i)
    \/ \E i \in WorkerIds : DiscordStartReturns(i)
    \/ \E i \in WorkerIds : DiscordFinally(i)

SpecContent == InitContent /\ [][NextContent]_vars

\* the text of the item with id i as its scanner reads it: message.content,
\* issue.get("body", "No description provided."), hit.get("story_text") or ""
ItemText(src, i) ==
    LET it == Item(feed, src, i)
    IN  CASE src = "Discord" -> it.content
          [] src = "GitHub" -> IF it.body.k = "absent" THEN NoDescription ELSE it.body.v
          [] src = "HackerNews" -> IF it.story_text.k = "text" THEN it.story_text.v ELSE <<>>

\* the text of the item that lead ld was made from
TextOf(ld) == ItemText(ld.source, ld.source_id[2])

\* C6: the content of every persisted lead is the item's text cut to its first
\* 2000 characters: a longer text is stored as exactly its first 2000 characters,
\* a text of 2000 or fewer characters unmodified.
ContentIsFirst2000 ==
    \A u \in DbNames : \A k \in 1..Len(store[u]) :
        LET ld == store[u][k]
            t == TextOf(ld)
        IN  /\ Len(ld.content) <= ContentLimit
            /\ Len(t) <= ContentLimit => ld.content = t
            /\ Len(t) > ContentLimit => ld.content = SubSeq(t, 1, ContentLimit)

\* a lead made from a text of more than 2000 characters is in the store, with a
\* content of 2000 characters
LongTextPersisted ==
    \E u \in DbNames : \E k \in 1..Len(store[u]) :
        Len(TextOf(store[u][k])) > ContentLimit /\ Len(store[u][k].content) = ContentLimit

----------------------------------------------------------------------------
(* GitHub workers started before and after saves, two databases, no stop request
   (specification SpecStore) *)

\* the settings form with either database and one keyword per source
StoreForms == {MkSettings(u, "tok", <<kwA>>, <<kwA>>, <<kwA>>) : u \in DbNames}

InitStore ==
    InitWith(MkSettings("db", "tok", <<kwA>>, <<kwA>>, <<kwA>>), SmallFeed,
             Limits(StoreWorkers, StoreSaves, StoreItems, StoreResp, 0, FALSE, FALSE))

NextStore ==
    \/ ToggleOn("GitHub")
    \/ \E st \in StoreForms : SaveSettings(st)
    \/ PollStep

SpecStore == InitStore /\ [][NextStore]_vars

\* the items whose insert into a database among dbs has returned
InsertedInto(dbs) == {<<h.src, h.id>> : h \in {x \in prov : x.col \in dbs}}

\* polling thread i makes the existence check of the item at hand in this step
ChecksExistence(i) ==
    /\ IsPolling(i) /\ At(i, "items")
    /\ workers[i].ri <= Len(workers[i].resp)
    /\ workers'[i] # workers[i]

\* the check was truthy: `continue` with the next item of the response
FoundExisting(i) ==
    workers'[i].pc = "items" /\ workers'[i].ri = workers[i].ri + 1

\* the item whose existence polling thread i checks
Checked(i) == <<workers[i].src, workers[i].resp[workers[i].ri]>>

\* C3 (as amended): an existence check made by any worker is true exactly when an
\* insert of that source_id into the database the worker is connected to has
\* returned before, whatever thread inserted it and whatever was saved in between.
StoreContractPerDatabase ==
    [][\A i \in WorkerIds :
          ChecksExistence(i) =>
              (FoundExisting(i) <=> Checked(i) \in InsertedInto({workers[i].col}))]_vars

\* C3 (as claimed): an existence check made by any worker, also after settings
\* were saved, is true exactly when an insert of that source_id has returned before.
StoreContract ==
    [][\A i \in WorkerIds :
          ChecksExistence(i) => (FoundExisting(i) <=> Checked(i) \in InsertedInto(DbNames))]_vars

\* a thread started after a save is about to check an item that a thread started
\* before the save inserted into the same database
ChecksAfterSave ==
    \E i \in 1..Len(workers) :
        /\ workers[i].g > 0 /\ workers[i].pc = "items"
        /\ workers[i].ri <= Len(workers[i].resp)
        /\ Checked(i) \in InsertedInto({workers[i].col})

-----------------------------------------------------------------------------
(* Toggle requests: every script run evaluates the three toggle handlers; the
   run records which request it made and what the flag was. *)

UiWorkers == 1
UiItems == 1
UiResp == 1

OneKeyword == MkSettings("db", "tok", <<kwA>>, <<kwA>>, <<kwA>>)

InitUi ==
    InitWith(OneKeyword, SmallFeed, Limits(UiWorkers, 0, UiItems, UiResp, 0, FALSE, TRUE))

UiSources == {"Discord", "GitHub"}

NextUi ==
    \/ \E src \in UiSources : ToggleOn(src)
    \/ \E src \in UiSources : ToggleOff(src)
    \/ \E src \in UiSources : \E target \in BOOLEAN : ToggleSame(src, target)
    \/ PollStep
    \/ DiscordStep

SpecUi == InitUi /\ [][NextUi]_vars

\* the step is a script run that asked op for a source whose flag was `was`
Request(op, was) ==
    /\ probe' # probe
    /\ probe'[1].op = op
    /\ probe'[1].was = was

\* C11: a stop requested for a source whose flag is already False changes no
\* running flag, starts and ends no worker and leaves the store as it was; so a
\* stop after a stop leaves the state the first stop left
StopOfStoppedIsNoOp ==
    [][Request("stop", FALSE) =>
           /\ running' = running
           /\ workers' = workers
           /\ store' = store]_vars

\* a second stop of a source has just run while the worker that the first stop
\* addressed is still alive
StoppedTwice ==
    /\ probe # <<>>
    /\ probe[1].op = "stop"
    /\ ~probe[1].was
    /\ stopReq[probe[1].src]
    /\ \E i \in 1..Len(workers) : workers[i].src = probe[1].src /\ Live(workers[i])

-----------------------------------------------------------------------------
(* Failed fetches: the GitHub scanner with two keywords, started and stopped
   from the sidebar (run_hn_scanner has the same try/except around its fetch
   and takes the same PollFetch step). *)

FetchWorkers == 1
FetchItems == 1
FetchResp == 1

InitFetch ==
    InitWith(Configured, SmallFeed,
             Limits(FetchWorkers, 0, FetchItems, FetchResp, 0, FALSE, TRUE))

NextFetch ==
    \/ ToggleOn("GitHub")
    \/ ToggleOff("GitHub")
    \/ PollStep

SpecFetch == InitFetch /\ [][NextFetch]_vars

\* thread i was fetching and the step ended its keyword without a response
FetchFails(i) ==
    /\ IsPolling(i) /\ At(i, "fetch")
    /\ workers'[i].pc \notin {"fetch", "items"}

\* C12: a fetch that raises or returns a status other than 200 leaves every
\* running flag as it was and the worker in its loop at the next keyword; a
\* polling worker returns only from the failed start-up check or after it has
\* read its running flag as False
FailedFetchKeepsLoop ==
    [][\A i \in WorkerIds :
          /\ FetchFails(i) =>
                /\ running' = running
                /\ workers'[i].pc = "for"
                /\ workers'[i].kws = workers[i].kws
                /\ workers'[i].ki = workers[i].ki + 1
          /\ (IsPolling(i) /\ Live(workers[i]) /\ ~Live(workers'[i])) =>
                At(i, "fail") \/ ~Flag(i)]_vars

\* a worker that had a fetch fail is fetching the first keyword of a later cycle
FetchedAfterFailure ==
    \E i \in 1..Len(workers) :
        /\ workers[i].ff
        /\ workers[i].pc = "fetch"
        /\ workers[i].ki = 1
        /\ Flag(i)

\* C13: a worker that finds the store unreachable stays alive, to wait and
\* check the store again
UnreachableStoreKeepsWorker ==
    [][\A i \in WorkerIds :
          (i \in 1..Len(workers) /\ At(i, "fail")) => Live(workers'[i])]_vars

-----------------------------------------------------------------------------
(* Start requests under settings that lack the store or the Discord token, with
   the settings saved while threads start; the external sources hold no items. *)

ConfigWorkers == 1
ConfigSaves == 1

ConfigSettings ==
    {OneKeyword,
     MkSettings("db", "", <<kwA>>, <<kwA>>, <<kwA>>),
     MkSettings("", "tok", <<kwA>>, <<kwA>>, <<kwA>>)}

InitConfig ==
    \E st \in ConfigSettings :
        InitWith(st, SmallFeed,
                 Limits(ConfigWorkers, ConfigSaves, 0, 0, 0, FALSE, TRUE))

NextConfig ==
    \/ \E src \in UiSources : ToggleOn(src)
    \/ \E src \in UiSources : ToggleRefused(src)
    \/ \E st \in ConfigSettings : SaveSettings(st)
    \/ \E i \in WorkerIds : PollInit(i)
    \/ \E i \in WorkerIds : PollFail(i)
    \/ \E i \in WorkerIds : PollWhile(i)
    \/ \E i \in WorkerIds : PollFor(i)
    \/ \E i \in WorkerIds : PollFetch(i)
    \/ \E i \in WorkerIds : PollItem(i)
    \/ \E i \in WorkerIds : PollPostFor(i)
    \/ \E i \in WorkerIds : PollSleep(i)
    \/ \E i \in WorkerIds : DiscordInit(i)
    \/ \E i \in WorkerIds : DiscordFail(i)
    \/ \E i \in WorkerIds : DiscordPublishLoop(i)
    \/ \E i \in WorkerIds : DiscordPublishClient(i)
    \/ \E i \in WorkerIds : DiscordConnect(i)
    \/ \E i \in WorkerIds : DiscordStartReturns(i)
    \/ \E i \in WorkerIds : DiscordFinally(i)

SpecConfig == InitConfig /\ [][NextConfig]_vars

\* the settings lack what the source needs to run
Missing(src) ==
    \/ Loaded.mongo_uri = ""
    \/ src = "Discord" /\ Loaded.discord_bot_token = ""

\* C14: a start requested while the store is not configured, or for Discord
\* while the token is not configured, starts no thread and leaves the flags
\* False; a thread whose start-up check finds the store or the token missing goes
\* to the failure exit, which sets its running flag to False, and never to a
\* connection or a fetch
ConfigErrorPreventsStart ==
    [][/\ Len(workers') > Len(workers) => ~Missing(workers'[Len(workers')].src)
       /\ Request("refused", FALSE) =>
              /\ running' = running
              /\ workers' = workers
              /\ ~running'[gen'][probe'[1].src]
       /\ \A i \in WorkerIds :
              /\ (i \in 1..Len(workers) /\ At(i, "init") /\ Missing(workers[i].src)) =>
                    workers'[i].pc \in {"init", "fail"}
              /\ (i \in 1..Len(workers) /\ At(i, "fail") /\ ~Live(workers'[i])) =>
                    ~running'[workers[i].g][workers[i].src]]_vars

\* a start of the Discord scanner has just been refused for its missing token
RefusedStart ==
    /\ probe # <<>>
    /\ probe[1].op = "refused"
    /\ probe[1].src = "Discord"
    /\ Loaded.mongo_uri # ""
    /\ Loaded.discord_bot_token = ""
    /\ ~running[gen]["Discord"]

-----------------------------------------------------------------------------
(* The lead lifecycle: the Live Feed and Archive tabs act on the leads of the
   connected database while the GitHub scanner inserts; the database holds the
   lead of a Discord message from an earlier run of the process.  A lead's _id
   is its position in the collection. *)

LeadWorkers == 1
LeadItems == 1
LeadResp == 1

\* what generate_pitch returns (lines 90-120): the model's text, or one of the
\* error texts; it never raises
Pitches == {<<"a">>, <<"b">>}
Statuses == {"New", "Pitched", "Fixed"}

\* update_one({"_id": ...}, {"$set": {...}}) (lines 500-503, 565)
SetPitched(ld, p) == [ld EXCEPT !.status = "Pitched", !.generated_pitch = p]
SetStatusDroppingKeyword(ld, ns) == [ld EXCEPT !.status = ns, !.matched_keyword = <<>>]
SetStatus(ld, ns) == [ld EXCEPT !.status = ns]

\* leads_col of a script run (line 337) is a collection
Connected ==
    /\ Loaded.mongo_uri # ""
    /\ "col" \in DbResults(Loaded.mongo_uri)

\* "Generate AI Pitch & Move to Pitched" on lead k of the Live Feed, which lists
\* the leads with status New (lines 476-505)
GeneratePitch(k, p) ==
    /\ Connected
    /\ k \in 1..Len(store[Loaded.mongo_uri])
    /\ store[Loaded.mongo_uri][k].status = "New"
    /\ store' = [store EXCEPT ![Loaded.mongo_uri][k] = SetPitched(@, p)]
    /\ dbcache' = "col"
    /\ UNCHANGED <<settings, gen, running, pub, workers, prov, feed, logs, stopReq, handed,
                   lim, probe>>

\* "Update Status" on lead k of the Archive (lines 561-567)
UpdateStatus(k, ns) ==
    /\ Connected
    /\ k \in 1..Len(store[Loaded.mongo_uri])
    /\ ns # store[Loaded.mongo_uri][k].status
    /\ store' = [store EXCEPT ![Loaded.mongo_uri][k] = SetStatus(@, ns)]
    /\ dbcache' = "col"
    /\ UNCHANGED <<settings, gen, running, pub, workers, prov, feed, logs, stopReq, handed,
                   lim, probe>>

LeadIds == 1..(LeadItems + 1)

EarlierLeads ==
    [u \in DbNames |->
        IF u = "db" THEN <<DiscordLead(1, Item(SmallFeed, "Discord", 1), kwA)>> ELSE <<>>]

InitLeads ==
    InitFrom(OneKeyword, SmallFeed,
             Limits(LeadWorkers, 0, LeadItems, LeadResp, 0, FALSE, FALSE), EarlierLeads)

NextLeads ==
    \/ ToggleOn("GitHub")
    \/ PollStep
    \/ \E k \in LeadIds : \E p \in Pitches : GeneratePitch(k, p)
    \/ \E k \in LeadIds : \E ns \in Statuses : UpdateStatus(k, ns)

SpecLeads == InitLeads /\ [][NextLeads]_vars

\* the two documents agree on every field but status and generated_pitch
Frame(a, b) == \A f \in DOMAIN a \ {"status", "generated_pitch"} : a[f] = b[f]

\* C15: no step removes a lead or changes a field other than status and
\* generated_pitch of a lead in the store; a step that changes status or
\* generated_pitch is a pitch generation or a status update of the presentation
\* layer, never a step of a scan worker; a lead enters the store with status New
\* and no pitch
OnlyUiChangesLeads ==
    [][\A u \in DbNames :
          /\ Len(store'[u]) >= Len(store[u])
          /\ \A k \in 1..Len(store[u]) :
                /\ Frame(store[u][k], store'[u][k])
                /\ store'[u][k] # store[u][k] => workers' = workers
          /\ \A k \in (Len(store[u]) + 1)..Len(store'[u]) :
                /\ store'[u][k].status = "New"
                /\ store'[u][k].generated_pitch = <<>>]_vars

\* the earlier lead was pitched and the GitHub worker has inserted a lead next
\* to it and is still scanning
PitchedLeadKept ==
    /\ Len(store["db"]) >= 2
    /\ store["db"][1].status = "Pitched"
    /\ store["db"][1].generated_pitch # <<>>
    /\ \E i \in 1..Len(workers) : workers[i].pc = "fetch"

\* C16: a generated_pitch that has been set is never assigned again
PitchSetOnce ==
    [][\A u \in DbNames : \A k \in 1..Len(store[u]) :
          store[u][k].generated_pitch # <<>> =>
              store'[u][k].generated_pitch = store[u][k].generated_pitch]_vars

\* C17: the running flags that the presentation layer reads and writes are the
\* flags that every live worker reads, also after settings were saved
WorkersShareUiFlags ==
    \A i \in 1..Len(workers) : Live(workers[i]) => workers[i].g = gen

-----------------------------------------------------------------------------
(* Settings edited while scanners run: the file is opened for writing and
   closed in two steps, and the threads load it at any moment. *)

SettingsWorkers == 1
SettingsSaves == 2
SettingsItems == 1
SettingsResp == 1

\* the form saved with the keyword list replaced
EditedSettings == MkSettings("db", "tok", <<kwB>>, <<kwB>>, <<kwB>>)

InitSettings ==
    InitWith(OneKeyword, SmallFeed,
             Limits(SettingsWorkers, SettingsSaves, SettingsItems, SettingsResp, 0,
                    FALSE, FALSE))

NextSettings ==
    \/ \E src \in UiSources : ToggleOn(src)
    \/ SaveOpen(EditedSettings)
    \/ SaveClose
    \/ PollStep
    \/ \E i \in WorkerIds : DiscordInit(i)
    \/ \E i \in WorkerIds : DiscordFail(i)
    \/ \E i \in WorkerIds : DiscordPublishLoop(i)
    \/ \E i \in WorkerIds : DiscordPublishClient(i)
    \/ \E i \in WorkerIds : DiscordConnect(i)
    \/ \E i \in WorkerIds : \E m \in ItemIds : DiscordOnMessage(i, m)
    \/ \E i \in WorkerIds : DiscordInsert(i)
    \/ \E i \in WorkerIds : DiscordStartReturns(i)
    \/ \E i \in WorkerIds : DiscordFinally(i)

SpecSettings == InitSettings /\ [][NextSettings]_vars

\* thread i begins a polling cycle: the while test passed and the keywords are loaded
BeginsCycle(i) == IsPolling(i) /\ At(i, "while") /\ workers'[i].pc = "for"

\* thread i has matched a Discord message against the keywords it loaded
MatchesMessage(i) == IsDiscord(i) /\ At(i, "listen") /\ workers'[i].pc = "dinsert"

\* C18: once a save has completed, every polling cycle that begins and every
\* Discord message that is matched uses the keyword list of the last completed
\* save
LiveEditsTakeEffect ==
    [][\A i \in WorkerIds :
          /\ (BeginsCycle(i) /\ gen > 0) =>
                workers'[i].kws = KeywordsOf(settings, workers[i].src)
          /\ (MatchesMessage(i) /\ gen > 0) =>
                workers'[i].doc[1].kws = settings.emergency_keywords]_vars

\* C19: the keywords that a polling cycle loads are those of the complete
\* settings before the save under way or those of the complete settings it
\* writes
LoadIsBeforeOrAfterSave ==
    [][\A i \in WorkerIds :
          BeginsCycle(i) =>
              workers'[i].kws \in {KeywordsOf(settings, workers[i].src),
                                   KeywordsOf(Pending, workers[i].src)}]_vars

-----------------------------------------------------------------------------
(* The log sink: threads call scanner_state.log on a buffer that already holds
   the events of earlier calls; probe keeps every event ever logged, newest
   first.  An event is <<thread, number of the call>>, thread 0 for the earlier
   ones. *)

LogBefore == 2
LogOver == 4
LogWriters == 2

\* the events of the first n calls, newest first
Earlier(n) == [k \in 1..n |-> <<0, n + 1 - k>>]

InitLog ==
    \E n \in (LogLimit - LogBefore)..LogLimit :
        /\ settings = Configured
        /\ gen = 0
        /\ running = [g \in {0} |-> NewFlags]
        /\ pub = [g \in {0} |-> NewPub]
        /\ dbcache = "unset"
        /\ workers = <<>>
        /\ store = [u \in DbNames |-> <<>>]
        /\ prov = {}
        /\ feed = SmallFeed
        /\ logs = [g \in {0} |-> Earlier(n)]
        /\ stopReq = [src \in Sources |-> FALSE]
        /\ handed = {}
        /\ lim = Limits(0, 0, 0, 0, 0, TRUE, FALSE)
        /\ probe = Earlier(n)

\* a thread calls scanner_state.log (lines 69-71)
Log(who) ==
    /\ Len(probe) < LogLimit + LogOver
    /\ Logged(gen, <<who, Len(probe) + 1>>)
    /\ probe' = <<<<who, Len(probe) + 1>>>> \o probe
    /\ UNCHANGED <<settings, gen, running, pub, dbcache, workers, store, prov, feed, stopReq,
                   handed, lim>>

NextLog == \E who \in 1..LogWriters : Log(who)

SpecLog == InitLog /\ [][NextLog]_vars

\* C20: the log sink holds at most 50 entries, newest first, and they are the
\* 50 events appended last (all of them while fewer were appended)
LogHoldsLast50 ==
    /\ Len(logs[gen]) <= LogLimit
    /\ logs[gen] = Slice(probe, LogLimit)

\* more than 50 events were logged, the last two by different threads
FullLogEvicted ==
    /\ Len(probe) > LogLimit + 1
    /\ probe[1][1] # probe[2][1]
    /\ Len(logs[gen]) = LogLimit

-----------------------------------------------------------------------------
(* Responses, flags and exits of the scanners *)

\* thread i was in the items of a response and the step ended the keyword
EndsResponse(i) == IsPolling(i) /\ At(i, "items") /\ workers'[i].pc = "for"

\* C21: when a polling worker is done with a 200 response, every item of the
\* response has a lead with its source_id in the worker's collection
BatchComplete ==
    [][\A i \in WorkerIds :
          EndsResponse(i) =>
              \A j \in 1..Len(workers[i].resp) :
                  FindOne(store'[workers[i].col],
                          SourceId(workers[i].src, workers[i].resp[j]))]_vars

FlagWorkers == 2
FlagItems == 1

InitFlag ==
    InitWith(OneKeyword, SmallFeed, Limits(FlagWorkers, 0, FlagItems, 0, 0, FALSE, FALSE))

\* the toggles of two sources and their threads; Discord messages arrive, the
\* GitHub responses are empty
NextFlag ==
    \/ \E src \in UiSources : ToggleOn(src)
    \/ \E src \in UiSources : ToggleOff(src)
    \/ \E i \in WorkerIds : PollInit(i)
    \/ \E i \in WorkerIds : PollFail(i)
    \/ \E i \in WorkerIds : PollWhile(i)
    \/ \E i \in WorkerIds : PollFor(i)
    \/ \E i \in WorkerIds : PollFetch(i)
    \/ \E i \in WorkerIds : PollItem(i)
    \/ \E i \in WorkerIds : PollPostFor(i)
    \/ \E i \in WorkerIds : PollSleep(i)
    \/ \E i \in WorkerIds : DiscordInit(i)
    \/ \E i \in WorkerIds : DiscordFail(i)
    \/ \E i \in WorkerIds : DiscordPublishLoop(i)
    \/ \E i \in WorkerIds : DiscordPublishClient(i)
    \/ \E i \in WorkerIds : DiscordRunClose(i)
    \/ \E i \in WorkerIds : DiscordConnect(i)
    \/ \E i \in WorkerIds : \E m \in ItemIds : DiscordOnMessage(i, m)
    \/ \E i \in WorkerIds : DiscordInsert(i)
    \/ \E i \in WorkerIds : DiscordStartReturns(i)
    \/ \E i \in WorkerIds : DiscordFinally(i)

SpecFlag == InitFlag /\ [][NextFlag]_vars

\* C22: a running flag that the presentation layer reads as True belongs to a
\* source with a live worker bound to the same scanner state
FlagMeansWorker ==
    \A src \in Sources :
        running[gen][src] =>
            \E i \in 1..Len(workers) :
                workers[i].src = src /\ workers[i].g = gen /\ Live(workers[i])

\* the flag of a source is True again after a stop, one of its workers has
\* returned and another is alive
RestartedFlagHasWorker ==
    \E src \in UiSources :
        /\ running[gen][src]
        /\ \E i, j \in 1..Len(workers) :
              /\ workers[i].src = src /\ ~Live(workers[i])
              /\ workers[j].src = src /\ Live(workers[j])

\* thread i returns through an exit path that sets its running flag from True
\* to False
ExitClearsFlag(i) ==
    /\ i \in 1..Len(workers)
    /\ workers[i].pc \in {"fail", "finally"}
    /\ ~Live(workers'[i])
    /\ Flag(i)
    /\ ~running'[workers[i].g][workers[i].src]

\* C23: a worker whose exit path sets the running flag of its source to False
\* is the worker of that source that was started last
ExitDisarmsOnlyLastStarted ==
    [][\A i \in WorkerIds :
          ExitClearsFlag(i) =>
              \A j \in 1..Len(workers) : workers[j].src = workers[i].src => j <= i]_vars

====
